---- MODULE Spec2Model ----
(***************************************************************************)
(* Model of osgEarth's LandCoverLayer.cpp: the LandCoverTileSource         *)
(* (initialize / setDictionary / createImage), the per-tile coverage       *)
(* binding ILayer::load, buildCodeMap and LandCoverLayer::addedToMap.      *)
(***************************************************************************)
EXTENDS Integers, Sequences, FiniteSets, TLC

VARIABLES
    options,            \* LandCoverLayerOptions: bits, coverages (their mappings)
    tileSource,         \* "none" | "created" | "initialized" (LandCoverLayer::getTileSource())
    _coverages,         \* LandCoverTileSource::_coverages, the opened coverage layers
    _codemaps,          \* LandCoverTileSource::_codemaps, one CodeMap per opened coverage
    _lcDictionary,      \* LandCoverTileSource::_lcDictionary
    layer_lcDictionary, \* LandCoverLayer::_lcDictionary
    sd,                 \* activation of setDictionary (loop position)
    ci,                 \* activation of createImage (locals, loop positions, output)
    progress,           \* the ProgressCallback handed to createImage
    dec                 \* the texel decode applied to one raw code

vars == <<options, tileSource, _coverages, _codemaps, _lcDictionary,
          layer_lcDictionary, sd, ci, progress, dec>>

(***************************************************************************)
(* Bounds of the model.                                                    *)
(***************************************************************************)
MaxCov   == 2     \* configured coverages, options().coverages().size()
TileSize == 2     \* getPixelsPerTile()
MaxLevel == 1     \* deepest level of detail of a requested TileKey

\* the absent dictionary, image, tile key, load record and table read
NoDictionary == [valid |-> FALSE, classes |-> {}]
NoImage      == [valid |-> FALSE]
InvalidKey   == [lod |-> -1, x |-> 0, y |-> 0]
NoLoad       == [L |-> 0, en |-> FALSE, vis |-> FALSE, inr |-> FALSE,
                 tried |-> << >>, done |-> FALSE]
NoRead       == [L |-> 0, code |-> 0, used |-> FALSE]

(***************************************************************************)
(* IEEE-754 single precision, as far as createImage uses it.  A finite     *)
(* float is [neg, m, e] with value (-1)^neg * m * 2^e and either m = 0 or  *)
(* 2^23 <= m < 2^24.                                                       *)
(***************************************************************************)
RECURSIVE Pow2(_)
Pow2(n) == IF n <= 0 THEN 1 ELSE 2 * Pow2(n - 1)

MantBits == 24
MantMin  == Pow2(MantBits - 1)
MantMax  == Pow2(MantBits)

F32Zero == [neg |-> FALSE, m |-> 0, e |-> 0]

\* round-to-nearest-even of (q + r/d) * 2^e, 0 <= r < d, 0 <= q < 2^24
RECURSIVE F32Round(_, _, _, _, _)
F32Round(neg, q, r, d, e) ==
    IF q = 0 /\ r = 0 THEN F32Zero
    ELSE IF q < MantMin
    THEN F32Round(neg, 2 * q + (IF 2 * r >= d THEN 1 ELSE 0), (2 * r) % d, d, e - 1)
    ELSE LET up == 2 * r > d \/ (2 * r = d /\ q % 2 = 1)
             q1 == IF up THEN q + 1 ELSE q
         IN  IF q1 = MantMax
             THEN [neg |-> neg, m |-> MantMin, e |-> e + 1]
             ELSE [neg |-> neg, m |-> q1, e |-> e]

\* the float nearest to n/d (n >= 0, d > 0), negated when neg
F32FromRatio(neg, n, d) == F32Round(neg, n \div d, n % d, d, 0)

\* (float)value for a non-negative int
F32FromInt(n) == F32FromRatio(FALSE, n, 1)

\* x * k rounded to float, for a float constant 1 <= k <= 255
F32MulSmall(x, k) ==
    LET mh == x.m \div 256
        ml == x.m % 256
        hi == mh * k + ((ml * k) \div 256)
        lo == (ml * k) % 256
    IN  F32Round(x.neg, hi, lo, 256, x.e + 8)

\* x < 1.0f
F32LtOne(x) == x.neg \/ x.m = 0 \/ x.e <= -MantBits

IntMax == 2147483647
IntMin == (-IntMax) - 1

\* (int)x : truncation toward zero; out of the range of int the conversion
\* is undefined and yields what the target's instruction yields
F32ToInt(x) ==
    IF x.m = 0 THEN {0}
    ELSE IF x.e > 7 THEN {IntMin, IntMax}
    ELSE LET mag == IF x.e >= 0 THEN x.m * Pow2(x.e)
                    ELSE IF -x.e >= MantBits THEN 0
                    ELSE x.m \div Pow2(-x.e)
         IN  {IF x.neg THEN -mag ELSE mag}

FLT_MAX        == [neg |-> FALSE, m |-> MantMax - 1, e |-> 104]
NO_DATA_VALUE  == [neg |-> TRUE,  m |-> MantMax - 1, e |-> 104]
NoData16       == F32FromRatio(TRUE, 32768, 1)

(***************************************************************************)
(* Texel classification, createImage lines 346-375.                        *)
(***************************************************************************)
ByteScale == 255          \* the factor of "texel.r()*255.0f"

\* the int the code indexes the code map with: "(int)(texel.r()*255.0f)" for
\* a normalized texel (< 1.0f), "(int)texel.r()" otherwise
DecodeTexel_unscaled(texel) == F32ToInt(texel)
DecodeTexel(texel) ==
    IF F32LtOne(texel)
    THEN F32ToInt(F32MulSmall(texel, ByteScale))
    ELSE F32ToInt(texel)

\* "code < _codemaps[L].size()": the int is converted to size_t, so a
\* negative code compares as a value above every vector size
InBounds_signed(code, size) == code < size
InBounds(code, size) == code >= 0 /\ code < size

\* _codemaps[L][code]; an index outside the vector reads an arbitrary int
ReadCode(codemap, code) ==
    IF code >= 0 /\ code < Len(codemap) THEN {codemap[code + 1]} ELSE {-1, 0}

\* the dictionary codes the texel may be written as ({} : nothing written)
Classify(texel, codemap) ==
    IF texel = NO_DATA_VALUE THEN {}
    ELSE UNION { IF InBounds(code, Len(codemap))
                 THEN { value \in ReadCode(codemap, code) : value >= 0 }
                 ELSE {}
                 : code \in DecodeTexel(texel) }

(***************************************************************************)
(* Dictionaries and coverage mappings.                                     *)
(***************************************************************************)
\* a LandCoverDictionary: its classes, each a name and a canonical value
Dictionary(classes) == [valid |-> TRUE, classes |-> classes]
DictA == Dictionary({ [name |-> "forest", value |-> 7], [name |-> "water", value |-> 12] })
DictB == Dictionary({ [name |-> "desert", value |-> 3] })
DictC == Dictionary({ [name |-> "forest", value |-> 1], [name |-> "urban", value |-> 2],
                      [name |-> "water", value |-> 0] })

\* LandCoverDictionary::getClass(name): the class, or none
GetClass(dict, name) == { c \in dict.classes : c.name = name }

\* the value mappings (raw value, class name) of a coverage's options
MappingsOdd  == << [value |-> 1, name |-> "forest"], [value |-> 2, name |-> "urban"] >>
MappingsEven == << [value |-> 1, name |-> "water"],  [value |-> 3, name |-> "forest"] >>
DefaultMappings(i) == IF i % 2 = 1 THEN MappingsOdd ELSE MappingsEven

MappingSets ==
    { << >>,
      << [value |-> 0, name |-> "forest"] >>,
      MappingsOdd,
      MappingsEven,
      << [value |-> 3, name |-> "water"], [value |-> 1, name |-> "forest"] >>,
      << [value |-> 1, name |-> "forest"], [value |-> 1, name |-> "urban"] >> }

(***************************************************************************)
(* buildCodeMap, lines 107-144.                                            *)
(***************************************************************************)
RECURSIVE HighestValue(_, _, _)
HighestValue(mappings, k, highestValue) ==
    IF k > Len(mappings) THEN highestValue
    ELSE HighestValue(mappings, k + 1,
                      IF mappings[k].value > highestValue
                      THEN mappings[k].value ELSE highestValue)

\* codemap.assign(n, fill)
Assign(n, fill) == [r \in 1..n |-> fill]

Unmapped == -1

RECURSIVE FillCodeMap(_, _, _, _)
FillCodeMap(mappings, dict, k, codemap) ==
    IF k > Len(mappings) THEN codemap
    ELSE LET lcClass == GetClass(dict, mappings[k].name)
         IN  FillCodeMap(mappings, dict, k + 1,
                         IF lcClass # {}
                         THEN [codemap EXCEPT ![mappings[k].value + 1] =
                                                 (CHOOSE c \in lcClass : TRUE).value]
                         ELSE codemap)

\* coverage: [mappings, dictionary]; the code map after the call
BuildCodeMap_append(coverage, codemap) ==
    IF ~coverage.dictionary.valid THEN codemap
    ELSE LET n == HighestValue(coverage.mappings, 1, 0) + 1
         IN  FillCodeMap(coverage.mappings, coverage.dictionary, 1,
                         [r \in 1..(IF n > Len(codemap) THEN n ELSE Len(codemap)) |->
                             IF r <= Len(codemap) THEN codemap[r] ELSE Unmapped])

BuildCodeMap_zerofill(coverage, codemap) ==
    IF ~coverage.dictionary.valid THEN codemap
    ELSE FillCodeMap(coverage.mappings, coverage.dictionary, 1,
                     Assign(HighestValue(coverage.mappings, 1, 0) + 1, 0))

BuildCodeMap(coverage, codemap) ==
    IF ~coverage.dictionary.valid THEN codemap
    ELSE FillCodeMap(coverage.mappings, coverage.dictionary, 1,
                     Assign(HighestValue(coverage.mappings, 1, 0) + 1, Unmapped))

(***************************************************************************)
(* The layer and its tile source: construction, createTileSource,          *)
(* initialize, addedToMap, setDictionary.                                  *)
(***************************************************************************)
\* sd.rebuilt: setDictionary has run over code maps it had built before
IdleSD == [pc |-> "idle", lcd |-> NoDictionary, i |-> 0, rebuilt |-> FALSE]
IdleCI == [pc |-> "idle"]
IdleDec == [pc |-> "idle", c |-> 0]

Bits == {16, 32}

\* the options with coverage i's mappings all of MappingSets (any = TRUE)
\* or DefaultMappings(i)
OptionSets(any) ==
    { [bits |-> b, coverages |-> cs] :
        b \in Bits,
        cs \in { c \in [1..MaxCov -> [mappings : MappingSets]] :
                    any \/ \A i \in 1..MaxCov : c[i].mappings = DefaultMappings(i) } }

InitWith(opts, decs) ==
    /\ options \in opts
    /\ tileSource = "none"
    /\ _coverages = << >>
    /\ _codemaps = << >>
    /\ _lcDictionary = NoDictionary
    /\ layer_lcDictionary = NoDictionary
    /\ sd = IdleSD
    /\ ci = IdleCI
    /\ progress = [canceled |-> FALSE]
    /\ dec \in decs

\* LandCoverLayer::createTileSource, lines 491-495
CreateTileSource ==
    /\ tileSource = "none"
    /\ tileSource' = "created"
    /\ UNCHANGED <<options, _coverages, _codemaps, _lcDictionary,
                   layer_lcDictionary, sd, ci, progress, dec>>

RECURSIVE OpenCoverages(_, _, _, _)
OpenCoverages(i, enabled, opened, acc) ==
    IF i > Len(options.coverages) THEN acc
    ELSE OpenCoverages(i + 1, enabled, opened,
            IF enabled[i] /\ opened[i]
            THEN Append(acc, [opt |-> i,
                              mappings |-> options.coverages[i].mappings,
                              dictionary |-> NoDictionary])
            ELSE acc)

\* LandCoverTileSource::initialize, lines 194-250; enabled[i] is
\* coverageOptions.enabled() of coverage i and opened[i] whether its
\* layer->open() returns an OK status
Initialize(enabled, opened) ==
    /\ tileSource = "created"
    /\ tileSource' = "initialized"
    /\ _coverages' = OpenCoverages(1, enabled, opened, << >>)
    /\ _codemaps' = [k \in 1..Len(_coverages') |-> << >>]
    /\ UNCHANGED <<options, _lcDictionary, layer_lcDictionary, sd, ci, progress, dec>>

\* LandCoverTileSource::setDictionary, lines 252-262: entry, up to the loop
SetDictionary(lcd) ==
    /\ _lcDictionary' = lcd
    /\ sd' = IF Len(_coverages) = 0 THEN sd
             ELSE [pc |-> "loop", lcd |-> lcd, i |-> 1,
                   rebuilt |-> _lcDictionary.valid]

\* one iteration of setDictionary's loop, lines 257-261; ci.mutated records
\* that a coverage or a code map changed under a createImage in progress
SetDictionaryStep ==
    /\ sd.pc = "loop"
    /\ LET i == sd.i
           coverage == [_coverages[i] EXCEPT !.dictionary = sd.lcd]
       IN  /\ _coverages' = [_coverages EXCEPT ![i] = coverage]
           /\ _codemaps' = [_codemaps EXCEPT ![i] = BuildCodeMap(coverage, _codemaps[i])]
           /\ sd' = IF i + 1 > Len(_coverages)
                    THEN [IdleSD EXCEPT !.rebuilt = sd.rebuilt]
                    ELSE [sd EXCEPT !.i = i + 1]
    /\ ci' = IF ci.pc \in {"scan", "walk"}
             THEN [ci EXCEPT !.mutated = TRUE] ELSE ci
    /\ UNCHANGED <<options, tileSource, _lcDictionary, layer_lcDictionary,
                   progress, dec>>

\* LandCoverLayer::addedToMap, lines 472-489; dict is map->getLayer<LandCoverDictionary>()
AddedToMap(dict) ==
    /\ layer_lcDictionary' = dict
    /\ IF dict.valid /\ tileSource # "none"
       THEN SetDictionary(dict)
       ELSE UNCHANGED <<_lcDictionary, sd>>
    /\ UNCHANGED <<options, tileSource, _coverages, _codemaps, ci, progress, dec>>

(***************************************************************************)
(* Tile keys, extents and the coverages' source rasters.                   *)
(***************************************************************************)
\* the requested keys: the corner tiles of every level
TileKeys == UNION { { [lod |-> l, x |-> x, y |-> y] :
                        x \in {0, Pow2(l) - 1}, y \in {0, Pow2(l) - 1} } :
                    l \in 0..MaxLevel }

\* TileKey::createParentKey; the parent of a root key is invalid
CreateParentKey(k) ==
    IF k.lod = 0 THEN InvalidKey
    ELSE [lod |-> k.lod - 1, x |-> k.x \div 2, y |-> k.y \div 2]

\* TileKey::getExtent, in units of half a tile of the deepest level
TileWidth(lod) == Pow2(MaxLevel - lod + 1)
KeyExtent(k) ==
    [xMin   |-> k.x * TileWidth(k.lod),
     yMin   |-> (Pow2(k.lod) - 1 - k.y) * TileWidth(k.lod),
     width  |-> TileWidth(k.lod),
     height |-> TileWidth(k.lod)]

\* float texel values a coverage's raster may hold
TexNorm(c) == F32FromRatio(FALSE, c, ByteScale)    \* byte c stored normalized
TexLit(c)  == F32FromInt(c)                        \* code c stored as is
TexNeg     == F32FromRatio(TRUE, 1, 1)
TexHuge    == [neg |-> FALSE, m |-> MantMin, e |-> 17]

\* the raster of the coverage opened from options().coverages()[opt]: the
\* texels of its images, four to an image, level after level
RasterOdd  == << TexNorm(1), TexLit(1), TexLit(9), TexLit(2) >>
RasterEven == << NO_DATA_VALUE, TexLit(1), TexNeg, TexHuge,
                 TexLit(1), TexLit(3), TexNorm(1), TexLit(1) >>
RasterOf(opt) == IF opt % 2 = 1 THEN RasterOdd ELSE RasterEven

\* the extent a coverage has data for: the odd coverages cover the world,
\* the even ones its south-west quarter
DataExtent(opt) ==
    LET w == TileWidth(0)
    IN  IF opt % 2 = 1
        THEN [xMin |-> 0, yMin |-> 0, width |-> w, height |-> w]
        ELSE [xMin |-> 0, yMin |-> 0, width |-> w \div 2, height |-> w \div 2]

Max(a, b) == IF a >= b THEN a ELSE b
Min(a, b) == IF a <= b THEN a ELSE b

Intersection(a, b) ==
    LET x0 == Max(a.xMin, b.xMin)
        y0 == Max(a.yMin, b.yMin)
    IN  [xMin |-> x0, yMin |-> y0,
         width  |-> Min(a.xMin + a.width,  b.xMin + b.width)  - x0,
         height |-> Min(a.yMin + a.height, b.yMin + b.height) - y0]

\* the extent of the image a coverage yields for key k: the part of the
\* key's extent it has data for
ImageExtent(opt, k) == Intersection(KeyExtent(k), DataExtent(opt))

\* sourceLayer->createImage(k, progress): what the provider may yield, no
\* image or, where the coverage has data, the image of the key
GeoImage(opt, k) == [valid |-> TRUE, key |-> k, extent |-> ImageExtent(opt, k), src |-> opt]
ProviderImages(opt, k) ==
    {NoImage} \cup
    (IF ImageExtent(opt, k).width > 0 /\ ImageExtent(opt, k).height > 0
     THEN {GeoImage(opt, k)} ELSE {})

\* rationals n/d, d > 0, as <<n, d>>
RAdd(a, b) == << a[1] * b[2] + b[1] * a[2], a[2] * b[2] >>
RMul(a, b) == << a[1] * b[1], a[2] * b[2] >>
RInUnit(a) == a[1] >= 0 /\ a[1] <= a[2]

\* ImageUtils::PixelReader without interpolation: the texel nearest to the
\* image coordinate (cx, cy) of a TileSize x TileSize image
NearestIndex(c) == (2 * c[1] * (TileSize - 1) + c[2]) \div (2 * c[2])
ReadTexel(image, cx, cy) ==
    LET raster == RasterOf(image.src)
    IN  raster[((NearestIndex(cx) + 2 * NearestIndex(cy) + 4 * image.key.lod)
                    % Len(raster)) + 1]

(***************************************************************************)
(* ILayer, lines 63-103.                                                   *)
(***************************************************************************)
\* ILayer(): valid(true), scale(1.0f), no image; nload and ncalls count the
\* calls of load and of the provider
NewILayer ==
    [image |-> NoImage, scale |-> <<1, 1>>, bias |-> << <<0, 1>>, <<0, 1>> >>,
     valid |-> TRUE, nload |-> 0, ncalls |-> 0]

\* "getEnabled() && getVisible() && isKeyInLegalRange(key)", line 79
LoadGuard(en, vis, inr) == en /\ vis /\ inr

\* the tail of load, lines 87-101, for the image the walk ended with
FinishLoad(layer, key, image) ==
    IF ~image.valid THEN [layer EXCEPT !.valid = FALSE]
    ELSE LET ke == KeyExtent(key)
             ie == image.extent
         IN  [layer EXCEPT
                 !.image = image,
                 !.valid = TRUE,
                 !.scale = << ke.width, ie.width >>,
                 !.bias  = << << ke.xMin - ie.xMin, ie.width >>,
                              << ke.yMin - ie.yMin, ie.height >> >>]

(***************************************************************************)
(* LandCoverTileSource::createImage, lines 266-387.                        *)
(***************************************************************************)
Pixels == (0..(TileSize - 1)) \X (0..(TileSize - 1))

\* a texel of the allocated image that no statement has written yet; it
\* differs from every float
Uninit == [neg |-> FALSE, m |-> 0, e |-> 1]

\* the no-data texel of the output format, lines 312-316
NoDataFor(bits) == IF bits = 16 THEN NoData16 ELSE NO_DATA_VALUE

\* "L >= 0 && !wrotePixel", line 323 (layers are numbered from 1 here)
ScanContinues_all(L, wrotePixel) == L >= 1
ScanContinues(L, wrotePixel) == L >= 1 /\ ~wrotePixel

\* "!layer.image.valid()", line 329
NeedsLoad_always(layer) == TRUE
NeedsLoad(layer) == ~layer.image.valid

\* the image coordinate of output sample (u, v), line 335
Cov(layer, u, v) ==
    << RAdd(RMul(layer.scale, <<u, TileSize - 1>>), layer.bias[1]),
       RAdd(RMul(layer.scale, <<v, TileSize - 1>>), layer.bias[2]) >>

\* line 337
Covers(cov) == RInUnit(cov[1]) /\ RInUnit(cov[2])

\* entry: lines 269-316, and the first pass through the loop headers
CreateImage(key) ==
    /\ tileSource = "initialized"
    /\ ci.pc = "idle"
    /\ progress' = [canceled |-> FALSE]
    /\ IF Len(_coverages) = 0
       THEN ci' = [pc |-> "done", key |-> key, ret |-> "null"]
       ELSE ci' = [pc |-> "scan", key |-> key, ret |-> "none",
                   layers |-> [i \in 1..Len(_coverages) |-> NewILayer],
                   nodata |-> NoDataFor(options.bits),
                   out |-> [p \in Pixels |-> Uninit],
                   u |-> 0, v |-> 0,
                   L |-> Len(_coverages), wrotePixel |-> FALSE,
                   k |-> InvalidKey,
                   load |-> NoLoad, read |-> NoRead, oob |-> FALSE,
                   mutated |-> FALSE]
    /\ UNCHANGED <<options, tileSource, _coverages, _codemaps, _lcDictionary,
                   layer_lcDictionary, sd, dec>>

\* one pass through the body of the layer loop, lines 325-376, up to a call
\* of the coverage's provider; ci.load and ci.read record the load that has
\* just returned and the code map read of this pass
ScanLayer ==
    /\ ci.pc = "scan"
    /\ ScanContinues(ci.L, ci.wrotePixel)
    /\ LET L == ci.L
           layer == ci.layers[L]
           skip == [ci EXCEPT !.L = L - 1, !.read = NoRead, !.load = NoLoad]
       IN
       IF ~layer.valid
       THEN ci' = skip
       ELSE IF NeedsLoad(layer)
       THEN \E en \in BOOLEAN, vis \in BOOLEAN, inr \in BOOLEAN :
              LET entered == [layer EXCEPT !.nload = @ + 1]
                  rec == [L |-> L, en |-> en, vis |-> vis, inr |-> inr,
                          tried |-> << >>, done |-> FALSE]
              IN  IF LoadGuard(en, vis, inr)
                  THEN ci' = [ci EXCEPT !.pc = "walk", !.k = ci.key,
                                        !.layers[L] = entered,
                                        !.load = rec, !.read = NoRead]
                  ELSE ci' = [ci EXCEPT
                                 !.layers[L] = FinishLoad(entered, ci.key, entered.image),
                                 !.load = [rec EXCEPT !.done = TRUE],
                                 !.read = NoRead]
       ELSE LET cov == Cov(layer, ci.u, ci.v)
                texel == ReadTexel(layer.image, cov[1], cov[2])
                codemap == _codemaps[L]
            IN  IF ~Covers(cov) THEN ci' = skip
                ELSE IF texel = NO_DATA_VALUE THEN ci' = skip
                ELSE \E code \in DecodeTexel(texel) :
                     LET inb == InBounds(code, Len(codemap))
                         rd  == [L |-> L, code |-> code, used |-> inb]
                         bad == inb /\ ~(code >= 0 /\ code < Len(codemap))
                     IN  IF ~inb
                         THEN ci' = [skip EXCEPT !.read = rd]
                         ELSE \E value \in ReadCode(codemap, code) :
                              IF value >= 0
                              THEN ci' = [skip EXCEPT
                                            !.out[<<ci.u, ci.v>>] = F32FromInt(value),
                                            !.wrotePixel = TRUE,
                                            !.read = rd,
                                            !.oob = @ \/ bad]
                              ELSE ci' = [skip EXCEPT !.read = rd, !.oob = @ \/ bad]
    /\ UNCHANGED <<options, tileSource, _coverages, _codemaps, _lcDictionary,
                   layer_lcDictionary, sd, progress, dec>>

\* one iteration of the ancestor walk of ILayer::load, lines 81-84, and,
\* when the walk ends, the tail of load
ProviderCall ==
    /\ ci.pc = "walk"
    /\ LET L == ci.L
           layer == [ci.layers[L] EXCEPT !.ncalls = @ + 1]
           rec == [ci.load EXCEPT !.tried = Append(@, ci.k.lod)]
           parent == CreateParentKey(ci.k)
       IN  \E image \in ProviderImages(_coverages[L].opt, ci.k) :
             IF image.valid \/ parent = InvalidKey
             THEN ci' = [ci EXCEPT !.pc = "scan", !.k = InvalidKey,
                                   !.layers[L] = FinishLoad(layer, ci.key, image),
                                   !.load = [rec EXCEPT !.done = TRUE]]
             ELSE ci' = [ci EXCEPT !.k = parent, !.layers[L] = layer, !.load = rec]
    /\ UNCHANGED <<options, tileSource, _coverages, _codemaps, _lcDictionary,
                   layer_lcDictionary, sd, progress, dec>>

\* the end of the layer loop for one sample, lines 379-382, then the loop
\* headers, lines 318-323, or the return, line 386
PixelEnd ==
    /\ ci.pc = "scan"
    /\ ~ScanContinues(ci.L, ci.wrotePixel)
    /\ LET wrote == [ci EXCEPT !.out[<<ci.u, ci.v>>] =
                                    IF ci.wrotePixel THEN @ ELSE ci.nodata,
                               !.read = NoRead, !.load = NoLoad]
           reset == [wrote EXCEPT !.wrotePixel = FALSE, !.L = Len(ci.layers)]
       IN  IF ci.v + 1 <= TileSize - 1
           THEN ci' = [reset EXCEPT !.v = ci.v + 1]
           ELSE IF ci.u + 1 <= TileSize - 1
           THEN ci' = [reset EXCEPT !.u = ci.u + 1, !.v = 0]
           ELSE ci' = [wrote EXCEPT !.pc = "done", !.ret = "out"]
    /\ UNCHANGED <<options, tileSource, _coverages, _codemaps, _lcDictionary,
                   layer_lcDictionary, sd, progress, dec>>

\* the caller takes the returned image; the locals are gone
Release ==
    /\ ci.pc = "done"
    /\ ci' = IdleCI
    /\ UNCHANGED <<options, tileSource, _coverages, _codemaps, _lcDictionary,
                   layer_lcDictionary, sd, progress, dec>>

\* the requester cancels the ProgressCallback of the call in flight
Cancel ==
    /\ ci.pc \in {"scan", "walk"}
    /\ ~progress.canceled
    /\ progress' = [canceled |-> TRUE]
    /\ UNCHANGED <<options, tileSource, _coverages, _codemaps, _lcDictionary,
                   layer_lcDictionary, sd, ci, dec>>

(***************************************************************************)
(* Specifications.                                                         *)
(***************************************************************************)
Dictionaries == {DictA, DictB}

Init == InitWith(OptionSets(FALSE), {IdleDec})

\* one thread makes every call: a call starts when no other is in progress
NoSetDictionary == sd.pc = "idle"
NoCreateImage   == ci.pc = "idle"

\* createImage never reads its ProgressCallback (it only hands it to the
\* providers, whose answers are free here), so Next leaves cancellation to
\* NextCancel
Next ==
    \/ CreateTileSource
    \/ \E enabled \in [1..MaxCov -> BOOLEAN], opened \in [1..MaxCov -> BOOLEAN] :
          Initialize(enabled, opened)
    \/ \E dict \in Dictionaries \cup {NoDictionary} :
          /\ NoSetDictionary /\ NoCreateImage
          /\ tileSource # "created" /\ ~_lcDictionary.valid
          /\ AddedToMap(dict)
    \/ SetDictionaryStep
    \/ \E key \in TileKeys : NoSetDictionary /\ CreateImage(key)
    \/ ScanLayer
    \/ ProviderCall
    \/ PixelEnd
    \/ Release

Spec == Init /\ [][Next]_vars

\* the same calls, with the requester free to cancel a call in flight
NextCancel == Next \/ Cancel

SpecCancel == Init /\ [][NextCancel]_vars

(***************************************************************************)
(* setDictionary and code map builds alone, over every mapping list and    *)
(* with the dictionary replaced any number of times.                       *)
(***************************************************************************)
InitBuild == InitWith(OptionSets(TRUE), {IdleDec})

NextBuild ==
    \/ CreateTileSource
    \/ \E enabled \in [1..MaxCov -> BOOLEAN], opened \in [1..MaxCov -> BOOLEAN] :
          Initialize(enabled, opened)
    \/ \E dict \in {DictA, DictB, DictC, NoDictionary} :
          /\ NoSetDictionary
          /\ tileSource # "created"
          /\ AddedToMap(dict)
    \/ SetDictionaryStep

SpecBuild == InitBuild /\ [][NextBuild]_vars

(***************************************************************************)
(* The calls of Next with addedToMap on the thread that edits the map and  *)
(* createImage on a tile thread: nothing in the source orders the two.     *)
(***************************************************************************)
NextConc ==
    \/ CreateTileSource
    \/ \E enabled \in [1..MaxCov -> BOOLEAN], opened \in [1..MaxCov -> BOOLEAN] :
          Initialize(enabled, opened)
    \/ \E dict \in Dictionaries \cup {NoDictionary} :
          /\ NoSetDictionary
          /\ tileSource # "created" /\ ~_lcDictionary.valid
          /\ AddedToMap(dict)
    \/ SetDictionaryStep
    \/ \E key \in TileKeys : CreateImage(key)
    \/ ScanLayer
    \/ ProviderCall
    \/ PixelEnd
    \/ Release

SpecConc == Init /\ [][NextConc]_vars

(***************************************************************************)
(* The texel decode of createImage applied to one raw code, stored both    *)
(* as the byte c of a normalized image and as the float c.                 *)
(***************************************************************************)
\* the code map of a coverage that maps raw code c alone, to "forest"
DecodeTable(c) ==
    BuildCodeMap([mappings |-> << [value |-> c, name |-> "forest"] >>,
                  dictionary |-> DictA], << >>)

Decoded(texel, codemap) ==
    [codes |-> DecodeTexel(texel), values |-> Classify(texel, codemap)]

Decode ==
    /\ dec.pc = "idle"
    /\ dec' = [pc |-> "done", c |-> dec.c,
               normalized   |-> Decoded(TexNorm(dec.c), DecodeTable(dec.c)),
               unnormalized |-> Decoded(TexLit(dec.c), DecodeTable(dec.c))]
    /\ UNCHANGED <<options, tileSource, _coverages, _codemaps, _lcDictionary,
                   layer_lcDictionary, sd, ci, progress>>

InitDecode == InitWith(OptionSets(FALSE), { [pc |-> "idle", c |-> c] : c \in 0..ByteScale })

NextDecode == Decode

SpecDecode == InitDecode /\ [][NextDecode]_vars

(***************************************************************************)
(* Properties.                                                             *)
(***************************************************************************)
\* a createImage call that got past the empty-list return is in progress or
\* has returned its image
InCall == ci.pc \in {"scan", "walk"} \/ (ci.pc = "done" /\ ci.ret = "out")

\* the dictionary codes coverage L offers for output sample p: it resolved
\* to an image, the sample lies inside the image, the texel there is not the
\* no-data value, and its raw code has a non-negative entry in the table
SuppliedCodes(L, p) ==
    LET layer == ci.layers[L]
        cov   == Cov(layer, p[1], p[2])
        table == _codemaps[L]
    IN  IF ~(layer.valid /\ layer.image.valid) THEN {}
        ELSE IF ~(RInUnit(cov[1]) /\ RInUnit(cov[2])) THEN {}
        ELSE LET texel == ReadTexel(layer.image, cov[1], cov[2])
             IN  IF texel = NO_DATA_VALUE THEN {}
                 ELSE { table[code + 1] :
                          code \in { c \in DecodeTexel(texel) :
                                       /\ c \in 0..(Len(table) - 1)
                                       /\ table[c + 1] >= 0 } }

Suppliers(p) == { L \in 1..Len(ci.layers) : SuppliedCodes(L, p) # {} }

Highest(S) == CHOOSE L \in S : \A M \in S : M <= L

\* C1: every output sample that has been written holds the dictionary code
\* of the highest-indexed coverage that resolved to an image, covers the
\* sample, has a texel other than no-data there and maps its raw code; it
\* holds the no-data value of the output format when there is no such
\* coverage; and a returned image has every sample written.
C1_PriorityComposite ==
    InCall =>
      \A p \in Pixels :
        /\ ci.pc = "done" => ci.out[p] # Uninit
        /\ ci.out[p] # Uninit =>
             IF Suppliers(p) = {}
             THEN ci.out[p] = NoDataFor(options.bits)
             ELSE \E value \in SuppliedCodes(Highest(Suppliers(p)), p) :
                     ci.out[p] = F32FromInt(value)

\* a returned image of two coverages in which one sample has a code from
\* each of them and the upper one won, and another sample was left to the
\* lower one
C1_Witness ==
    /\ ci.pc = "done" /\ ci.ret = "out"
    /\ Len(ci.layers) = 2
    /\ \E p \in Pixels, q \in Pixels :
         /\ SuppliedCodes(2, q) # {} /\ SuppliedCodes(1, q) # {}
         /\ SuppliedCodes(2, q) # SuppliedCodes(1, q)
         /\ SuppliedCodes(2, p) = {} /\ SuppliedCodes(1, p) # {}

\* the tile source holds no dictionary, or one that resolves no class name
\* of any coverage
ResolvesNone ==
    \A i \in 1..Len(_coverages) :
       \A k \in 1..Len(_coverages[i].mappings) :
          GetClass(_lcDictionary, _coverages[i].mappings[k].name) = {}

NoUsableDictionary == ~_lcDictionary.valid \/ ResolvesNone

AllNoData ==
    /\ ci.ret = "out"
    /\ \A p \in Pixels : ci.out[p] = NoDataFor(options.bits)

ForestCode == { c.value : c \in GetClass(DictA, "forest") }

BothDecodeTo(c) ==
    /\ dec.normalized.codes = {c}
    /\ dec.unnormalized.codes = {c}
    /\ dec.normalized.values = ForestCode
    /\ dec.unnormalized.values = ForestCode

\* C3, as stated: for every mapped raw code c, the byte c of a normalized
\* image and the float c of an unnormalized one decode to c and to the same
\* dictionary code.
C3_DecodeEquivalence ==
    dec.pc = "done" => BothDecodeTo(dec.c)

\* C3: for every mapped raw code c from 0 to 254, the byte c of a
\* normalized image and the float c of an unnormalized one decode to c and
\* to the same dictionary code; the byte 255 reads as 1.0, which is not
\* below 1.0, and decodes as raw code 1.
C3_DecodeEquivalenceBelow255 ==
    dec.pc = "done" =>
        IF dec.c < ByteScale
        THEN BothDecodeTo(dec.c)
        ELSE dec.normalized.codes = {1} /\ dec.unnormalized.codes = {dec.c}

\* a code whose normalized texel is no dyadic fraction, decoded both ways
C3_Witness ==
    /\ dec.pc = "done" /\ dec.c = 5
    /\ dec.normalized.codes = {5} /\ dec.normalized.values = ForestCode

\* C4: there is one code map per coverage, every layer a call scans has
\* its code map, no read falls outside a code map, and a raw code below 0
\* or at or past the map's length is not used as an index and writes no
\* sample.
C4_ReadsInBounds ==
    /\ Len(_codemaps) = Len(_coverages)
    /\ InCall =>
         /\ Len(ci.layers) = Len(_codemaps)
         /\ ~ci.oob
         /\ ci.read.L # 0 =>
              LET inside == ci.read.code >= 0 /\ ci.read.code < Len(_codemaps[ci.read.L])
              IN  /\ ci.read.used <=> inside
                  /\ ~inside => ~ci.wrotePixel

\* a pass that decoded a raw code past the end of a non-empty code map
C4_Witness ==
    /\ InCall /\ ci.read.L # 0
    /\ Len(_codemaps[ci.read.L]) > 0
    /\ ci.read.code >= Len(_codemaps[ci.read.L])
    /\ ~ci.read.used

\* C5, as stated: once the requester has cancelled, the call in flight
\* makes no further provider call and writes no further sample.
C5_AbandonOnCancel ==
    [][(progress.canceled /\ ci.pc \in {"scan", "walk"}) =>
          /\ \A L \in 1..Len(ci.layers) : ci'.layers[L].ncalls = ci.layers[L].ncalls
          /\ ci'.out = ci.out]_vars

\* C6, as stated: a load returns absent without a provider call exactly
\* when the coverage is not enabled or the key is outside its legal range,
\* whatever its visible flag.
C6_LoadGuard ==
    (InCall /\ ci.load.done) =>
        ((ci.load.tried = << >> /\ ~ci.layers[ci.load.L].valid)
            <=> (~ci.load.en \/ ~ci.load.inr))

\* C7, as stated: no code map or coverage entry is written while a
\* createImage call is in flight.
C7_NoMutationInFlight ==
    ci.pc \in {"scan", "walk"} => ~ci.mutated

Before(p) == p[1] < ci.u \/ (p[1] = ci.u /\ p[2] < ci.v)

\* the scan of some sample has come to layer L: no layer above it offered
\* a code for a finished sample, or the scan of the current sample stands
\* at L or has passed it
Reached(L) ==
    \/ \E p \in Pixels :
          /\ Before(p) \/ ci.pc = "done"
          /\ \A H \in (L + 1)..Len(ci.layers) : SuppliedCodes(H, p) = {}
    \/ /\ ci.pc # "done"
       /\ ci.L < L \/ (ci.L = L /\ ~ci.wrotePixel)

\* C8: within one call each coverage is loaded at most once, only after
\* the scan of some sample has come to it, and after every coverage above
\* it; a coverage the scan never came to has made no provider call and has
\* no image; and when the call returns, a coverage is loaded exactly if
\* the scan came to it.
C8_LazyOnce ==
    InCall =>
      \A L \in 1..Len(ci.layers) :
        LET layer == ci.layers[L]
        IN  /\ layer.nload <= 1
            /\ layer.nload = 0 => (layer.ncalls = 0 /\ ~layer.image.valid)
            /\ layer.nload = 1 => Reached(L)
            /\ (layer.nload = 1 /\ L < Len(ci.layers)) => ci.layers[L + 1].nload = 1
            /\ (ci.pc = "done" /\ Reached(L)) => layer.nload = 1

\* a returned image whose upper coverage gave every sample, the lower one
\* never loaded
C8_Witness ==
    /\ ci.pc = "done" /\ ci.ret = "out"
    /\ Len(ci.layers) = 2
    /\ ci.layers[2].nload = 1 /\ ci.layers[2].ncalls > 0
    /\ ci.layers[1].nload = 0

\* C9, as stated: a load of an enabled coverage with the key in range asks
\* the provider for the key itself first, then for one ancestor after the
\* other, stops at the first image or at the root, and makes at most
\* level + 1 calls.
C9_AncestorWalk ==
    (InCall /\ ci.load.done /\ ci.load.en /\ ci.load.inr) =>
        LET tried == ci.load.tried
            layer == ci.layers[ci.load.L]
        IN  /\ tried # << >>
            /\ Len(tried) <= ci.key.lod + 1
            /\ tried[1] = ci.key.lod
            /\ \A i \in 1..(Len(tried) - 1) : tried[i + 1] = tried[i] - 1
            /\ layer.ncalls = Len(tried)
            /\ layer.valid => layer.image.key.lod = tried[Len(tried)]
            /\ ~layer.valid => tried[Len(tried)] = 0

\* the dictionary codes the mappings of a coverage give raw code r
MappedCodes(mappings, dict, r) ==
    { c.value : c \in { d \in dict.classes :
                          \E k \in 1..Len(mappings) :
                             mappings[k].value = r /\ mappings[k].name = d.name } }

RawCodes(mappings) == { mappings[k].value : k \in 1..Len(mappings) }

\* C10: once setDictionary has returned, the code map of every coverage is
\* empty if the tile source has no dictionary, and else has one entry per
\* raw code from 0 to the highest mapped raw code, -1 where no mapping of
\* that raw code names a class of the dictionary and otherwise the value
\* of such a class; nothing of an earlier build remains.
C10_TableBuild ==
    sd.pc = "idle" =>
      \A i \in 1..Len(_coverages) :
        LET table == _codemaps[i]
            mappings == _coverages[i].mappings
        IN  IF ~_lcDictionary.valid THEN table = << >>
            ELSE /\ Len(table) = 1 + Highest(RawCodes(mappings) \cup {0})
                 /\ \A r \in 0..(Len(table) - 1) :
                      IF MappedCodes(mappings, _lcDictionary, r) = {}
                      THEN table[r + 1] = -1
                      ELSE table[r + 1] \in MappedCodes(mappings, _lcDictionary, r)

\* code maps built a second time, one of them with a raw code that stays
\* unmapped because its class name is not in the dictionary, next to a
\* mapped one
C10_Witness ==
    /\ sd.pc = "idle" /\ sd.rebuilt
    /\ \E i \in 1..Len(_coverages) :
         LET table == _codemaps[i]
             mappings == _coverages[i].mappings
         IN  \E k \in 1..Len(mappings), j \in 1..Len(mappings) :
                /\ GetClass(_lcDictionary, mappings[k].name) = {}
                /\ table[mappings[k].value + 1] = -1
                /\ table[mappings[j].value + 1] >= 0

====
